---- MODULE Spec2Model ----
(***************************************************************************)
(* Private Knowledge Q&A backend (backend/server.py): the chunker, the     *)
(* similarity scorer, the ranking pipeline of ask_question and the         *)
(* upload / delete / ask request handlers over the persisted corpus.       *)
(*                                                                         *)
(* Text is a sequence of characters, each a string: a character that TLA+  *)
(* can write in a string literal is written as itself, any other one by    *)
(* its code point ("U+2028").  An embedding is a pair of integers; the     *)
(* embedder's range is restricted to vectors of integral Euclidean norm of *)
(* at most 4095, on which np.dot and np.linalg.norm are exact in float32.  *)
(* The cosine is the float32 quotient and scores are Python floats, both   *)
(* computed bit for bit.                                                   *)
(***************************************************************************)
EXTENDS Integers, Sequences, FiniteSets, TLC

VARIABLES documents, chunks, req, next_id, probe

vars == <<documents, chunks, req, next_id, probe>>

(***************************************************************************)
(* Bounds of the model.                                                    *)
(***************************************************************************)
\* number of concurrent requests (each process serves one request)
MaxReq == 2
\* longest text handed to chunk_text in SpecChunk
MaxLen == 5
\* largest chunk_size / overlap handed to chunk_text in SpecChunk
MaxSize == 3
\* number of freely chosen corpus rows in SpecRank
MaxVar == 2

(***************************************************************************)
(* Program constants.                                                      *)
(***************************************************************************)
\* chunk_text(text, chunk_size=400, overlap=100) in upload_document
UploadChunkSize == 400
UploadOverlap == 100
\* top_k = 10
top_k == 10
\* db.chunks.find(...).to_list(10000)
ScanLimit == 10000
\* snippet budget: chunk['text'][:200]
SnippetLen == 200

(***************************************************************************)
(* Small helpers.                                                          *)
(***************************************************************************)
Min(a, b) == IF a <= b THEN a ELSE b

Max(a, b) == IF a >= b THEN a ELSE b

Abs(a) == IF a < 0 THEN -a ELSE a

RECURSIVE Gcd(_, _)
Gcd(a, b) == IF b = 0 THEN a ELSE Gcd(b, a % b)

\* s[:n]
Take(s, n) == SubSeq(s, 1, Min(n, Len(s)))

\* n copies of c
Rep(c, n) == [i \in 1..n |-> c]

(***************************************************************************)
(* Python floats (IEEE binary64) in [0, 16) that are multiples of 2^-54,   *)
(* as <<hi, lo>> with 0 <= lo < Limb: the value (hi * Limb + lo) / 2^54.   *)
(* Every score of the embedder's range is a multiple of 2^-48, so scores   *)
(* and the sums of up to top_k of them are exact; a quotient is rounded to *)
(* the nearest double, ties to even, which is exact in this form for       *)
(* values of at least 0.25.                                                *)
(***************************************************************************)
Limb == 2^27

\* <<h, l>> with the carry of l moved into h
Dbl(h, l) == <<h + (l \div Limb), l % Limb>>

DblZero == <<0, 0>>

DblHalf == <<2^26, 0>>

DblOne == <<2^27, 0>>

DblLeq(a, b) == IF a[1] = b[1] THEN a[2] <= b[2] ELSE a[1] < b[1]

DblLt(a, b) == IF a[1] = b[1] THEN a[2] < b[2] ELSE a[1] < b[1]

DblAdd(a, b) == Dbl(a[1] + b[1], a[2] + b[2])

\* a - b for a >= b
DblSub(a, b) ==
    IF a[2] >= b[2] THEN <<a[1] - b[1], a[2] - b[2]>>
    ELSE <<a[1] - b[1] - 1, a[2] + Limb - b[2]>>

\* m * 2^t / 2^54 for 0 <= m <= 2^24 and 0 <= t <= 30
DblShift(m, t) ==
    IF t >= 27 THEN <<m * (2^(t - 27)), 0>>
    ELSE <<m \div (2^(27 - t)), (m % (2^(27 - t))) * (2^t)>>

\* sum(...) of a sequence of floats, left to right from 0
RECURSIVE DblSum(_)
DblSum(s) == IF s = <<>> THEN DblZero ELSE DblAdd(DblSum(Take(s, Len(s) - 1)), s[Len(s)])

\* spacing of the doubles around a (in units of 2^-54), for a >= 0.25
Ulp(a) ==
    IF a[1] < 2^26 THEN 1 ELSE IF a[1] < 2^27 THEN 2 ELSE IF a[1] < 2^28 THEN 4 ELSE 8

\* the double nearest to (q + r / n) * 2^-54, ties to even, for 0 <= r < n
DblRound(q, r, n) ==
    LET u     == Ulp(q)
        low   == q[2] % u
        twice == 2 * ((low * n) + r)
        odd   == (q[2] \div u) % 2 = 1
    IN  IF twice > u * n \/ (twice = u * n /\ odd)
        THEN Dbl(q[1], (q[2] - low) + u)
        ELSE <<q[1], q[2] - low>>

\* floor and remainder of a / n for an integer 0 < n < 2^21: long division,
\* lo taken nine bits at a time
DblQuot(a, n) ==
    LET t2 == ((a[1] % n) * (2^9)) + (a[2] \div (2^18))
        t1 == ((t2 % n) * (2^9)) + ((a[2] \div (2^9)) % (2^9))
        t0 == ((t1 % n) * (2^9)) + (a[2] % (2^9))
    IN  [q |-> <<a[1] \div n,
                 ((t2 \div n) * (2^18)) + ((t1 \div n) * (2^9)) + (t0 \div n)>>,
         r |-> t0 % n]

\* a / n in float arithmetic
DblDivInt(a, n) ==
    LET d == DblQuot(a, n)
    IN  DblRound(d.q, d.r, n)

\* k further base-2^9 digits of r / d behind the digits acc
RECURSIVE Digits9(_, _, _, _)
Digits9(r, d, k, acc) ==
    IF k = 0
    THEN [q |-> acc, r |-> r]
    ELSE Digits9((r * (2^9)) % d, d, k - 1, (acc * (2^9)) + ((r * (2^9)) \div d))

\* the float a decimal literal p / d denotes (0.40 is DblOf(40, 100)): the
\* double nearest to the fraction, for 0 < p <= d < 2^21 and p / d >= 0.25
DblOf(p, d) ==
    LET h == Digits9(p % d, d, 3, p \div d)
        l == Digits9(h.r, d, 3, 0)
    IN  DblRound(<<h.q, l.q>>, l.r, d)

\* Python round(x, 4) of a float, in units of 1/10000: the decimal nearest
\* to the float's exact value, ties to even.  Long division, one decimal
\* digit at a time, on the fractional part.
RECURSIVE RoundDigits(_, _, _)
RoundDigits(frac, acc, k) ==
    IF k = 0
    THEN IF DblLt(DblHalf, frac) \/ (frac = DblHalf /\ acc % 2 = 1) THEN acc + 1 ELSE acc
    ELSE LET t == Dbl(10 * frac[1], 10 * frac[2])
         IN  RoundDigits(<<t[1] % Limb, t[2]>>, (acc * 10) + (t[1] \div Limb), k - 1)

Round4(a) == RoundDigits(<<a[1] % Limb, a[2]>>, a[1] \div Limb, 4)

(***************************************************************************)
(* np.float32 quotients: <<m, e>> is m * 2^e with 2^23 <= m < 2^24.        *)
(***************************************************************************)
\* binary long division of r / d until the mantissa has 24 bits
RECURSIVE F32Bits(_, _, _, _)
F32Bits(r, d, m, e) ==
    IF m >= 2^23
    THEN [m |-> m, e |-> e, r |-> r]
    ELSE F32Bits((2 * r) % d, d, (2 * m) + ((2 * r) \div d), e - 1)

\* np.float32(p) / np.float32(d) for integers 0 < p <= d < 2^24: the
\* quotient rounded to 24 bits, ties to even
Float32Div(p, d) ==
    LET b  == F32Bits(p % d, d, p \div d, 0)
        up == 2 * b.r > d \/ (2 * b.r = d /\ b.m % 2 = 1)
        m  == IF up THEN b.m + 1 ELSE b.m
    IN  IF m = 2^24 THEN [m |-> 2^23, e |-> b.e + 1] ELSE [m |-> m, e |-> b.e]

(***************************************************************************)
(* Text: str.strip() and slicing.                                          *)
(***************************************************************************)
\* the 29 characters str.strip() removes (str.isspace): tab, line feed,
\* carriage return, form feed, space; U+000B, U+001C..U+001F, U+0085 and
\* U+00A0, written as themselves; and the spaces beyond U+00FF, written
\* by code point
Whitespace ==
    {"\t", "\n", "\r", "\f", " ",
     "", "", "", "", "", "", " ",
     "U+1680", "U+2000", "U+2001", "U+2002", "U+2003", "U+2004",
     "U+2005", "U+2006", "U+2007", "U+2008", "U+2009", "U+200A",
     "U+2028", "U+2029", "U+202F", "U+205F", "U+3000"}

\* number of leading whitespace characters of s from position i on
LeadWs(s, i) ==
    LET stop == CHOOSE j \in i..(Len(s) + 1) :
                    /\ j = Len(s) + 1 \/ s[j] \notin Whitespace
                    /\ \A k \in i..(j - 1) : s[k] \in Whitespace
    IN  stop - i

\* number of trailing whitespace characters of s up to position i
TrailWs(s, i) ==
    LET stop == CHOOSE j \in 0..i :
                    /\ j = 0 \/ s[j] \notin Whitespace
                    /\ \A k \in (j + 1)..i : s[k] \in Whitespace
    IN  i - stop

\* s.strip()
strip(s) ==
    LET l == LeadWs(s, 1)
    IN  IF l = Len(s) THEN <<>> ELSE SubSeq(s, l + 1, Len(s) - TrailWs(s, Len(s)))

\* text[i : i + n] with a 0-based start i
Slice(text, i, n) == SubSeq(text, i + 1, Min(i + n, Len(text)))

(***************************************************************************)
(* chunk_text                                                              *)
(***************************************************************************)
\* step = max(1, chunk_size - overlap)
ChunkStep(chunk_size, overlap) == Max(1, chunk_size - overlap)

\* the off-by-one variant of the loop exit
ChunkStopEarly(i, overlap, n) == i + overlap + 1 >= n

\* if i + overlap >= len(text): break
ChunkStop(i, overlap, n) == i + overlap >= n

\* The while loop.  Each kept chunk is recorded with the 0-based position
\* of its first character in the original text (start) and its text.
RECURSIVE ChunkLoop(_, _, _, _, _)
ChunkLoop(text, chunk_size, overlap, i, acc) ==
    IF ~(i < Len(text))
    THEN acc
    ELSE LET window == Slice(text, i, chunk_size)
             chunk  == strip(window)
             acc2   == IF chunk # <<>>
                       THEN Append(acc, [start |-> i + LeadWs(window, 1), text |-> chunk])
                       ELSE acc
             i2     == i + ChunkStep(chunk_size, overlap)
         IN  IF ChunkStop(i2, overlap, Len(text))
             THEN acc2
             ELSE ChunkLoop(text, chunk_size, overlap, i2, acc2)

ChunkSpans(text, chunk_size, overlap) ==
    IF text = <<>> THEN <<>> ELSE ChunkLoop(text, chunk_size, overlap, 0, <<>>)

chunk_text(text, chunk_size, overlap) ==
    LET sp == ChunkSpans(text, chunk_size, overlap)
    IN  [k \in 1..Len(sp) |-> sp[k].text]

(***************************************************************************)
(* Similarity scorer.                                                      *)
(***************************************************************************)
Dot(a, b) == a[1] * b[1] + a[2] * b[2]

\* integer square root by bisection: the largest r in lo..hi with r * r <= n
RECURSIVE IsqrtIn(_, _, _)
IsqrtIn(n, lo, hi) ==
    IF lo >= hi
    THEN lo
    ELSE LET mid == (lo + hi + 1) \div 2
         IN  IF mid * mid <= n THEN IsqrtIn(n, mid, hi) ELSE IsqrtIn(n, lo, mid - 1)

\* np.linalg.norm, exact on the embedder's range (integral norm <= 4095)
Norm(v) == IsqrtIn(Dot(v, v), 0, Abs(v[1]) + Abs(v[2]))

\* the float 0.0 as a cosine
NoCosine == [neg |-> FALSE, m |-> 0, e |-> 0]

\* cosine_similarity(vec1, vec2): 0.0 on a zero denominator, else
\* float(np.dot(a, b) / denom) clamped to [-1, 1].  a and b are float32
\* arrays, so the quotient is a float32; dot and denom are exact on the
\* embedder's range.  The result is the sign and the float32 magnitude
\* m * 2^e (m = 0 for 0.0).
cosine_similarity(vec1, vec2) ==
    LET denom == Norm(vec1) * Norm(vec2)
        dot   == Dot(vec1, vec2)
        value == Float32Div(Abs(dot), denom)
    IN  IF denom = 0 \/ dot = 0
        THEN NoCosine
        ELSE IF value.e > -23 \/ (value.e = -23 /\ value.m > 2^23)
             THEN [neg |-> dot < 0, m |-> 2^23, e |-> -23]
             ELSE [neg |-> dot < 0, m |-> value.m, e |-> value.e]

\* normalize_similarity(raw_cosine): (raw_cosine + 1.0) / 2.0 clamped to
\* [0, 1]; exact in float arithmetic for a float32 of magnitude >= 2^-24
normalize_similarity(raw_cosine) ==
    LET half == DblShift(raw_cosine.m, raw_cosine.e + 53)
        normalized == IF raw_cosine.m = 0 THEN DblHalf
                      ELSE IF raw_cosine.neg THEN DblSub(DblHalf, half)
                      ELSE DblAdd(DblHalf, half)
    IN  IF DblLt(DblOne, normalized) THEN DblOne ELSE normalized

(***************************************************************************)
(* Ranking pipeline of ask_question.                                       *)
(***************************************************************************)
\* min_score = 0.40
min_score == DblOf(40, 100)

\* confidence thresholds 0.52 and 0.49
HighThreshold == DblOf(52, 100)

MediumThreshold == DblOf(49, 100)

\* the scoring loop: one {'chunk', 'score'} item per scanned chunk
chunk_scores(all_chunks, question_embedding) ==
    [k \in 1..Len(all_chunks) |->
        [chunk |-> all_chunks[k],
         score |-> normalize_similarity(
                       cosine_similarity(question_embedding, all_chunks[k].embedding))]]

\* the largest score among items (items is not empty)
MaxScore(items) ==
    LET scores == {items[k].score : k \in 1..Len(items)}
    IN  CHOOSE s \in scores : \A t \in scores : DblLeq(t, s)

\* chunk_scores.sort(key=lambda x: x['score'], reverse=True).  list.sort
\* is stable and reverse=True keeps the original order of equal keys: the
\* items of the largest score in their original order, then the rest,
\* sorted.  (Scores are fractions in lowest terms, so equal scores are
\* equal values; the recursion is as deep as there are distinct scores.)
RECURSIVE SortDesc(_)
SortDesc(items) ==
    IF items = <<>>
    THEN <<>>
    ELSE LET best == MaxScore(items)
             IsBest(x) == x.score = best
             NotBest(x) == x.score # best
         IN  SelectSeq(items, IsBest) \o SortDesc(SelectSeq(items, NotBest))

\* the slice without its bound
TopKUnbounded(sorted) == sorted

\* top_k_candidates = chunk_scores[:top_k]
top_k_candidates(sorted) == Take(sorted, top_k)

\* item['score'] >= min_score
PassesMinScore(item) == DblLeq(min_score, item.score)

\* filtered_candidates = [item for item in top_k_candidates if ...]
filtered_candidates(candidates) == SelectSeq(candidates, PassesMinScore)

\* a key that forgets the document
ChunkKeyTextOnly(chunk) == <<0, chunk.text>>

\* chunk_key = (chunk.get('document_id'), chunk.get('text'))
ChunkKey(chunk) == <<chunk.document_id, chunk.text>>

\* the seen_exact loop
RECURSIVE DedupLoop(_, _, _, _)
DedupLoop(items, k, seen_exact, acc) ==
    IF k > Len(items)
    THEN acc
    ELSE LET chunk_key == ChunkKey(items[k].chunk)
         IN  IF chunk_key \in seen_exact
             THEN DedupLoop(items, k + 1, seen_exact, acc)
             ELSE DedupLoop(items, k + 1, seen_exact \cup {chunk_key}, Append(acc, items[k]))

\* filtered_candidates of ask_question for a scan result and a question
\* vector: scored, sorted, cut to top_k, thresholded
ranked_candidates(all_chunks, question_embedding) ==
    filtered_candidates(
        top_k_candidates(SortDesc(chunk_scores(all_chunks, question_embedding))))

\* top_chunks: the seen_exact loop over filtered_candidates
dedup(filtered) == DedupLoop(filtered, 1, {}, <<>>)

\* top_chunks of ask_question for a scan result and a question vector
top_chunks(all_chunks, question_embedding) ==
    dedup(ranked_candidates(all_chunks, question_embedding))

(***************************************************************************)
(* Confidence and the response body.                                       *)
(***************************************************************************)
\* sum(item['score'] for item in top_chunks) / len(top_chunks)
confidence_score(items) ==
    DblDivInt(DblSum([k \in 1..Len(items) |-> items[k].score]), Len(items))

\* if confidence_score >= 0.52 ... elif confidence_score >= 0.49 ... else
Confidence(score) ==
    IF DblLeq(HighThreshold, score) THEN "high"
    ELSE IF DblLeq(MediumThreshold, score) THEN "medium"
    ELSE "low"

\* snippet_text = chunk['text'][:200] + "..." if len(chunk['text']) > 200 else chunk['text']
Snippet(text) ==
    IF Len(text) > SnippetLen THEN Take(text, SnippetLen) \o <<".", ".", ".">> ELSE text

\* Source(...) of one surviving candidate; score=round(item['score'], 4)
\* is carried in units of 1/10000.  (The highlight sentence is left out.)
SourceOf(item) ==
    [document_id   |-> item.chunk.document_id,
     document_name |-> item.chunk.document_name,
     snippet       |-> Snippet(item.chunk.text),
     score         |-> Round4(item.score),
     chunk_index   |-> item.chunk.chunk_index]

CannedAnswer == <<"I don't have enough information in the uploaded documents to answer this question.">>

\* the AskResponse returned when top_chunks is empty
CannedResponse ==
    [answer |-> CannedAnswer, sources |-> <<>>, confidence |-> "low", confidence_score |-> 0]

\* the AskResponse returned after the chat completion; confidence_score
\* is round(confidence_score, 4) in units of 1/10000
AnswerResponse(items, llm_response) ==
    [answer           |-> llm_response,
     sources          |-> [k \in 1..Len(items) |-> SourceOf(items[k])],
     confidence       |-> Confidence(confidence_score(items)),
     confidence_score |-> Round4(confidence_score(items))]

(***************************************************************************)
(* parse_llm_json and the choice of the answer text.  The raw completion   *)
(* is a sequence of tokens: "{" and "}", a key/value pair, a bare JSON     *)
(* scalar, or a word of prose.                                             *)
(***************************************************************************)
AnswerPair == "\"answer\": \"yes\""

AnswerNumberPair == "\"answer\": 42"

OtherPair == "\"note\": \"x\""

Pairs == {AnswerPair, AnswerNumberPair, OtherPair}

\* json.loads(text): the parsed value, or a failure (JSONDecodeError)
JsonLoads(text) ==
    IF text = <<"{", "}">> THEN [ok |-> TRUE, dict |-> TRUE, pair |-> ""]
    ELSE IF Len(text) = 3 /\ text[1] = "{" /\ text[2] \in Pairs /\ text[3] = "}"
         THEN [ok |-> TRUE, dict |-> TRUE, pair |-> text[2]]
    ELSE IF text = <<"42">> THEN [ok |-> TRUE, dict |-> FALSE, pair |-> ""]
    ELSE [ok |-> FALSE, dict |-> FALSE, pair |-> ""]

\* re.search(r"\{[\s\S]*\}", text): from the first "{" to the last "}"
BraceMatch(text) ==
    LET opens  == {i \in 1..Len(text) : text[i] = "{"}
        first  == CHOOSE i \in opens : \A j \in opens : i <= j
        closes == {i \in 1..Len(text) : text[i] = "}" /\ i > first}
        last   == CHOOSE i \in closes : \A j \in closes : j <= i
    IN  IF opens = {} \/ closes = {}
        THEN [found |-> FALSE, text |-> <<>>]
        ELSE [found |-> TRUE, text |-> SubSeq(text, first, last)]

NoJson == [ok |-> FALSE, dict |-> FALSE, pair |-> ""]

\* parse_llm_json(text); a result that is not ok stands for None
parse_llm_json(text) ==
    IF text = <<>>
    THEN NoJson
    ELSE IF JsonLoads(text).ok
         THEN JsonLoads(text)
         ELSE IF ~BraceMatch(text).found
              THEN NoJson
              ELSE JsonLoads(BraceMatch(text).text)

\* llm_response: llm_json["answer"].strip() when llm_json is a dict whose
\* "answer" is a string, else llm_text
LlmResponse(llm_text) ==
    LET llm_json == parse_llm_json(llm_text)
    IN  IF llm_json.ok /\ llm_json.dict /\ llm_json.pair = AnswerPair
        THEN <<"yes">>
        ELSE llm_text

(***************************************************************************)
(* Inputs of the request handlers.                                         *)
(***************************************************************************)
\* a one-chunk document
DocOne == <<"a">>

\* a two-chunk document: the windows [0, 400) and [300, 401)
DocTwo == <<"a">> \o Rep(" ", UploadChunkSize - 1) \o <<"b">>

\* uploaded files: decodable text, or bytes that are not UTF-8
Files ==
    {[name |-> "f.txt", utf8 |-> TRUE, text |-> t] : t \in {<<>>, <<" ", "\r", "\n">>, DocOne, DocTwo}}
    \cup {[name |-> "f.bin", utf8 |-> FALSE, text |-> <<>>]}

Questions == {<<>>, <<" ", "\r">>, <<"q">>}

\* the embedder's answers in Spec
Vectors == {<<1, 0>>, <<-1, 0>>}

\* the chat collaborator's answers
ChatReplies ==
    {<<"{", AnswerPair, "}">>,
     <<"Sure", "{", AnswerPair, "}">>,
     <<"plain">>}

Procs == 1..MaxReq

DocIds == 1..MaxReq

(***************************************************************************)
(* Request state.                                                          *)
(***************************************************************************)
NoBody == [kind |-> "none"]

IdleReq ==
    [op |-> "none", pc |-> "idle",
     text |-> <<>>, question |-> <<>>, document_id |-> 0, name |-> "",
     chunks_text |-> <<>>, built |-> <<>>,
     question_embedding |-> <<0, 0>>,
     scanned |-> FALSE, scan_len |-> 0, scored |-> 0, top |-> <<>>,
     deleted_chunks |-> 0,
     status |-> 0, detail |-> "", body |-> NoBody,
     embed_calls |-> 0, chat_calls |-> 0, db_reads |-> 0, db_writes |-> 0,
     embed_failed |-> FALSE, chat_failed |-> FALSE]

\* raise HTTPException(status_code, detail) reaching the caller
Fail(r, status, detail) ==
    [r EXCEPT !.pc = "done", !.status = status, !.detail = detail]

\* a 200 response
Return(r, body) ==
    [r EXCEPT !.pc = "done", !.status = 200, !.body = body]

\* not text.strip(), deciding on emptiness alone
IsEmptyOnly(text) == text = <<>>

\* not text.strip()
IsBlank(text) == strip(text) = <<>>

\* Chunk(...) with a 1-based index
NewChunkOneBased(document_id, document_name, chunk_content, embedding, idx) ==
    [document_id |-> document_id, document_name |-> document_name,
     text |-> chunk_content, embedding |-> embedding, chunk_index |-> idx + 1]

\* Chunk(document_id=doc.id, document_name=doc.name, text=chunk_content,
\*       embedding=embedding, chunk_index=idx)
NewChunk(document_id, document_name, chunk_content, embedding, idx) ==
    [document_id |-> document_id, document_name |-> document_name,
     text |-> chunk_content, embedding |-> embedding, chunk_index |-> idx]

\* Document(name=file.filename, text=text) with chunk_count set
NewDocument(id, name, text, chunk_count) ==
    [id |-> id, name |-> name, text |-> text, chunk_count |-> chunk_count]

\* Requests are interchangeable: process p takes its request once process
\* p - 1 has taken one.
MayStart(p) == req[p].pc = "idle" /\ (IF p = 1 THEN TRUE ELSE req[p - 1].pc # "idle")

(***************************************************************************)
(* upload_document                                                         *)
(***************************************************************************)
\* file.read(), decode, the emptiness check, Document(...), chunk_text and
\* the first get_embedding call.  HTTPException(400, "File is empty") is
\* raised inside the try block and there is no "except HTTPException:
\* raise" clause, so "except Exception" turns it into a 500.
UploadStart(p, file) ==
    /\ MayStart(p)
    /\ LET r0 == [req[p] EXCEPT !.op = "upload", !.name = file.name, !.text = file.text]
       IN  IF ~file.utf8
           THEN /\ req' = [req EXCEPT ![p] = Fail(r0, 400, "File must be a text file (UTF-8)")]
                /\ UNCHANGED next_id
           ELSE IF IsBlank(file.text)
           THEN /\ req' = [req EXCEPT ![p] = Fail(r0, 500, "400: File is empty")]
                /\ UNCHANGED next_id
           ELSE LET chunks_text == chunk_text(file.text, UploadChunkSize, UploadOverlap)
                    r1 == [r0 EXCEPT !.document_id = next_id, !.chunks_text = chunks_text]
                IN  /\ next_id' = next_id + 1
                    /\ req' = [req EXCEPT ![p] =
                                 IF chunks_text = <<>>
                                 THEN [r1 EXCEPT !.pc = "insert_doc"]
                                 ELSE [r1 EXCEPT !.pc = "await_embed", !.embed_calls = 1]]
    /\ UNCHANGED <<documents, chunks, probe>>

\* a get_embedding call that keeps being retried
EmbedFailedRetry(r) ==
    [r EXCEPT !.embed_failed = TRUE, !.embed_calls = @ + 1]

\* get_embedding raised: "except Exception" answers 500
EmbedFailed(r) ==
    Fail([r EXCEPT !.embed_failed = TRUE], 500, "embedding unavailable")

\* get_embedding returned for chunk idx: the Chunk is appended; the loop
\* calls get_embedding for the next chunk or goes on to insert_one
UploadEmbedOk(p, embedding) ==
    /\ req[p].op = "upload" /\ req[p].pc = "await_embed"
    /\ LET r   == req[p]
           idx == Len(r.built)
           built == Append(r.built,
                       NewChunk(r.document_id, r.name, r.chunks_text[idx + 1], embedding, idx))
       IN  req' = [req EXCEPT ![p] =
                     IF Len(built) < Len(r.chunks_text)
                     THEN [r EXCEPT !.built = built, !.embed_calls = @ + 1]
                     ELSE [r EXCEPT !.built = built, !.pc = "insert_doc"]]
    /\ UNCHANGED <<documents, chunks, next_id, probe>>

UploadEmbedFail(p) ==
    /\ req[p].op = "upload" /\ req[p].pc = "await_embed"
    /\ req' = [req EXCEPT ![p] = EmbedFailed(req[p])]
    /\ UNCHANGED <<documents, chunks, next_id, probe>>

\* await db.documents.insert_one(doc_dict)
UploadInsertDoc(p) ==
    /\ req[p].op = "upload" /\ req[p].pc = "insert_doc"
    /\ LET r == req[p]
           doc == NewDocument(r.document_id, r.name, r.text, Len(r.chunks_text))
           r1 == [r EXCEPT !.db_writes = @ + 1]
       IN  /\ documents' = documents \cup {doc}
           /\ req' = [req EXCEPT ![p] =
                        IF r.built # <<>>
                        THEN [r1 EXCEPT !.pc = "insert_chunks"]
                        ELSE Return(r1, [kind |-> "upload", id |-> r.document_id,
                                         chunk_count |-> Len(r.chunks_text)])]
    /\ UNCHANGED <<chunks, next_id, probe>>

\* await db.chunks.insert_many([...]) and the response
UploadInsertChunks(p) ==
    /\ req[p].op = "upload" /\ req[p].pc = "insert_chunks"
    /\ LET r == req[p]
       IN  /\ chunks' = chunks \o r.built
           /\ req' = [req EXCEPT ![p] =
                        Return([r EXCEPT !.db_writes = @ + 1],
                               [kind |-> "upload", id |-> r.document_id,
                                chunk_count |-> Len(r.chunks_text)])]
    /\ UNCHANGED <<documents, next_id, probe>>

(***************************************************************************)
(* delete_document                                                         *)
(***************************************************************************)
\* doc = await db.documents.find_one({"id": document_id})
DeleteFind(p, document_id) ==
    /\ MayStart(p)
    /\ LET r0 == [req[p] EXCEPT !.op = "delete", !.document_id = document_id,
                                !.db_reads = 1]
       IN  req' = [req EXCEPT ![p] =
                     IF \E d \in documents : d.id = document_id
                     THEN [r0 EXCEPT !.pc = "delete_chunks"]
                     ELSE Fail(r0, 404, "Document not found")]
    /\ UNCHANGED <<documents, chunks, next_id, probe>>

\* await db.chunks.delete_many({"document_id": document_id})
DeleteChunks(p) ==
    /\ req[p].op = "delete" /\ req[p].pc = "delete_chunks"
    /\ LET r == req[p]
           keep(c) == c.document_id # r.document_id
           kept == SelectSeq(chunks, keep)
       IN  /\ chunks' = kept
           /\ req' = [req EXCEPT ![p] =
                        [r EXCEPT !.pc = "delete_doc", !.db_writes = @ + 1,
                                  !.deleted_chunks = Len(chunks) - Len(kept)]]
    /\ UNCHANGED <<documents, next_id, probe>>

\* await db.documents.delete_one({"id": document_id}) and the response
DeleteDoc(p) ==
    /\ req[p].op = "delete" /\ req[p].pc = "delete_doc"
    /\ LET r == req[p]
           gone == {d \in documents : d.id = r.document_id}
       IN  /\ documents' = documents \ gone
           /\ req' = [req EXCEPT ![p] =
                        Return([r EXCEPT !.db_writes = @ + 1],
                               [kind |-> "delete", id |-> r.document_id,
                                deleted |-> (gone # {}),
                                deleted_chunks |-> r.deleted_chunks])]
    /\ UNCHANGED <<chunks, next_id, probe>>

(***************************************************************************)
(* ask_question                                                            *)
(***************************************************************************)
\* the emptiness check of the question and the get_embedding call
AskStart(p, question) ==
    /\ MayStart(p)
    /\ LET r0 == [req[p] EXCEPT !.op = "ask", !.question = question]
       IN  req' = [req EXCEPT ![p] =
                     IF IsBlank(question)
                     THEN Fail(r0, 400, "Question cannot be empty")
                     ELSE [r0 EXCEPT !.pc = "await_embed", !.embed_calls = 1]]
    /\ UNCHANGED <<documents, chunks, next_id, probe>>

\* get_embedding returned; db.chunks.find(...) is issued
AskEmbedOk(p, embedding) ==
    /\ req[p].op = "ask" /\ req[p].pc = "await_embed"
    /\ req' = [req EXCEPT ![p] =
                 [req[p] EXCEPT !.question_embedding = embedding, !.pc = "scan"]]
    /\ UNCHANGED <<documents, chunks, next_id, probe>>

AskEmbedFail(p) ==
    /\ req[p].op = "ask" /\ req[p].pc = "await_embed"
    /\ req' = [req EXCEPT ![p] = EmbedFailed(req[p])]
    /\ UNCHANGED <<documents, chunks, next_id, probe>>

\* cursor.to_list(length): at most length rows, in stored order
to_list(rows, length) == Take(rows, length)

\* an emptiness check that never fires
CorpusEmptyNever(all_chunks) == FALSE

\* if not all_chunks
CorpusEmpty(all_chunks) == all_chunks = <<>>

\* a short-circuit that never fires
NoEvidenceNever(items) == FALSE

\* if not top_chunks
NoEvidence(items) == items = <<>>

\* all_chunks = await db.chunks.find({}).to_list(10000), the 404 on an
\* empty scan, scoring, ranking, the canned answer on an empty candidate
\* list, else the chat completion call
AskScan(p) ==
    /\ req[p].op = "ask" /\ req[p].pc = "scan"
    /\ LET r == req[p]
           all_chunks == to_list(chunks, ScanLimit)
           r1 == [r EXCEPT !.db_reads = @ + 1, !.scanned = TRUE, !.scan_len = Len(all_chunks)]
       IN  req' = [req EXCEPT ![p] =
                     IF CorpusEmpty(all_chunks)
                     THEN Fail(r1, 404, "No documents available. Please upload documents first.")
                     ELSE LET items == top_chunks(all_chunks, r.question_embedding)
                              r2 == [r1 EXCEPT !.scored = Len(all_chunks), !.top = items]
                          IN  IF NoEvidence(items)
                              THEN Return(r2, CannedResponse)
                              ELSE [r2 EXCEPT !.pc = "await_chat", !.chat_calls = 1]]
    /\ UNCHANGED <<documents, chunks, next_id, probe>>

\* the chat completion returned: parse, sources, confidence, AskResponse.
\* With no candidate the average divides by zero, which "except Exception"
\* answers with 500.
AskChatOk(p, llm_text) ==
    /\ req[p].op = "ask" /\ req[p].pc = "await_chat"
    /\ req' = [req EXCEPT ![p] =
                 IF req[p].top = <<>>
                 THEN Fail(req[p], 500, "division by zero")
                 ELSE Return(req[p], AnswerResponse(req[p].top, LlmResponse(llm_text)))]
    /\ UNCHANGED <<documents, chunks, next_id, probe>>

\* the chat completion raised: "except Exception" answers 500
AskChatFail(p) ==
    /\ req[p].op = "ask" /\ req[p].pc = "await_chat"
    /\ req' = [req EXCEPT ![p] =
                 Fail([req[p] EXCEPT !.chat_failed = TRUE], 500, "chat unavailable")]
    /\ UNCHANGED <<documents, chunks, next_id, probe>>

(***************************************************************************)
(* The service: MaxReq requests, interleaved at their await points.        *)
(***************************************************************************)
NoProbe == [fn |-> "none"]

Init ==
    /\ documents = {}
    /\ chunks = <<>>
    /\ req = [p \in Procs |-> IdleReq]
    /\ next_id = 1
    /\ probe = NoProbe

Next ==
    \E p \in Procs :
        \/ \E file \in Files : UploadStart(p, file)
        \/ \E v \in Vectors : UploadEmbedOk(p, v)
        \/ UploadEmbedFail(p)
        \/ UploadInsertDoc(p)
        \/ UploadInsertChunks(p)
        \/ \E id \in DocIds : DeleteFind(p, id)
        \/ DeleteChunks(p)
        \/ DeleteDoc(p)
        \/ \E q \in Questions : AskStart(p, q)
        \/ \E v \in Vectors : AskEmbedOk(p, v)
        \/ AskEmbedFail(p)
        \/ AskScan(p)
        \/ \E t \in ChatReplies : AskChatOk(p, t)
        \/ AskChatFail(p)

Spec == Init /\ [][Next]_vars

(***************************************************************************)
(* chunk_text as a pure function: SpecChunk draws (text, chunk_size,       *)
(* overlap) and applies it.                                                *)
(***************************************************************************)
ChunkAlphabet == {"a", "b", " ", "\r"}

ChunkTexts == UNION {[1..n -> ChunkAlphabet] : n \in 0..MaxLen}

ChunkInit ==
    /\ documents = {}
    /\ chunks = <<>>
    /\ req = [p \in Procs |-> IdleReq]
    /\ next_id = 1
    /\ probe \in {[fn |-> "chunk_text", text |-> t, chunk_size |-> cs, overlap |-> ov,
                   done |-> FALSE, spans |-> <<>>, out |-> <<>>] :
                     t \in ChunkTexts, cs \in 1..MaxSize, ov \in 0..MaxSize}

ChunkApply ==
    /\ probe.fn = "chunk_text" /\ ~probe.done
    /\ probe' = [probe EXCEPT
                   !.done = TRUE,
                   !.spans = ChunkSpans(probe.text, probe.chunk_size, probe.overlap),
                   !.out = chunk_text(probe.text, probe.chunk_size, probe.overlap)]
    /\ UNCHANGED <<documents, chunks, req, next_id>>

ChunkNext == ChunkApply

SpecChunk == ChunkInit /\ [][ChunkNext]_vars

(***************************************************************************)
(* The ranking and the response of ask_question for a given scan result    *)
(* and question vector: SpecRank draws both, ranks (RankApply) and, where  *)
(* the handler waits for the chat completion (line 401), builds the        *)
(* response in a second step once it has arrived (RankChatOk).             *)
(* A corpus is up to MaxVar freely chosen rows of documents 1 and 2, with  *)
(* a block of rows of document 3 (pairwise distinct texts, one embedding)  *)
(* before or after them, sized around top_k.                               *)
(***************************************************************************)
RankVectors == {<<1, 0>>, <<0, 0>>, <<3, 4>>, <<100, 2499>>}

RankQuestions == {<<1, 0>>, <<-1, 0>>, <<0, 0>>}

\* (document_id, text) of a freely chosen row: two texts of document 1,
\* one of them also in document 2
VarKeys == {<<1, "a">>, <<1, "b">>, <<2, "a">>}

VarRows ==
    {[document_id |-> k[1], text |-> <<k[2]>>, embedding |-> e] :
        k \in VarKeys, e \in RankVectors}

VarSeqs == UNION {[1..n -> VarRows] : n \in 0..MaxVar}

\* rows as stored: chunk_index counts the earlier rows of the same document
Stored(rows) ==
    [k \in 1..Len(rows) |->
        NewChunk(rows[k].document_id, "f.txt", rows[k].text, rows[k].embedding,
                 Cardinality({j \in 1..(k - 1) : rows[j].document_id = rows[k].document_id}))]

Filler(n) == [j \in 1..n |-> NewChunk(3, "g.txt", Rep("a", j), <<3, 4>>, j - 1)]

FillCounts == {0, top_k - 1, top_k, top_k + 1}

RankCorpora ==
    {Stored(v) \o Filler(n) : v \in VarSeqs, n \in FillCounts}
    \cup {Filler(n) \o Stored(v) : v \in VarSeqs, n \in FillCounts}

RankInit ==
    /\ documents = {}
    /\ chunks = <<>>
    /\ req = [p \in Procs |-> IdleReq]
    /\ next_id = 1
    /\ probe \in {[fn |-> "rank", all_chunks |-> c, question_embedding |-> q,
                   ranked |-> FALSE, done |-> FALSE,
                   filtered |-> <<>>, top |-> <<>>, response |-> NoBody] :
                     c \in RankCorpora \ {<<>>}, q \in RankQuestions}

\* lines 328-359: scoring, ranking and, with no candidate left, the canned
\* response; otherwise the handler waits for the chat completion
RankApply ==
    /\ probe.fn = "rank" /\ ~probe.ranked
    /\ LET filtered == ranked_candidates(probe.all_chunks, probe.question_embedding)
           items == dedup(filtered)
       IN  probe' = [probe EXCEPT
                       !.ranked = TRUE,
                       !.filtered = filtered,
                       !.top = items,
                       !.done = NoEvidence(items),
                       !.response = IF NoEvidence(items) THEN CannedResponse ELSE NoBody]
    /\ UNCHANGED <<documents, chunks, req, next_id>>

\* lines 410-445: the chat completion returned llm_text and the response
\* is built from the candidates ranked before the wait
RankChatOk(llm_text) ==
    /\ probe.fn = "rank" /\ probe.ranked /\ ~probe.done
    /\ probe' = [probe EXCEPT
                   !.done = TRUE,
                   !.response = AnswerResponse(probe.top, LlmResponse(llm_text))]
    /\ UNCHANGED <<documents, chunks, req, next_id>>

RankNext ==
    \/ RankApply
    \/ \E t \in ChatReplies : RankChatOk(t)

SpecRank == RankInit /\ [][RankNext]_vars

(***************************************************************************)
(* The choice of the answer text as a pure function of the raw completion: *)
(* SpecParse draws llm_text (already stripped, possibly empty) from the    *)
(* token sequences of up to MaxTokens tokens and applies lines 410-415.    *)
(***************************************************************************)
MaxTokens == 5

LlmTokens == {"{", "}", AnswerPair, AnswerNumberPair, OtherPair, "42", "Sure"}

LlmTexts == UNION {[1..n -> LlmTokens] : n \in 0..MaxTokens}

ParseInit ==
    /\ documents = {}
    /\ chunks = <<>>
    /\ req = [p \in Procs |-> IdleReq]
    /\ next_id = 1
    /\ probe \in {[fn |-> "llm", llm_text |-> t, done |-> FALSE,
                   llm_json |-> NoJson, llm_response |-> <<>>] : t \in LlmTexts}

ParseApply ==
    /\ probe.fn = "llm" /\ ~probe.done
    /\ probe' = [probe EXCEPT
                   !.done = TRUE,
                   !.llm_json = parse_llm_json(probe.llm_text),
                   !.llm_response = LlmResponse(probe.llm_text)]
    /\ UNCHANGED <<documents, chunks, req, next_id>>

ParseNext == ParseApply

SpecParse == ParseInit /\ [][ParseNext]_vars

(***************************************************************************)
(* The scan of ask_question (line 324) followed by the ranking, as a pure  *)
(* function of the stored chunk collection: SpecScan draws the collection  *)
(* and the question vector.  A collection is either a few freely chosen    *)
(* rows, or one-chunk documents 1..n with n around ScanLimit, all of one   *)
(* embedding but the last stored.                                          *)
(***************************************************************************)
MaxOver == 1

ScanSizes == {ScanLimit, ScanLimit + MaxOver}

Bulk(n, last) ==
    [j \in 1..n |-> NewChunk(j, "f.txt", <<"a">>, IF j = n THEN last ELSE <<3, 4>>, 0)]

ScanCorpora ==
    {Stored(v) : v \in VarSeqs \ {<<>>}}
    \cup {Bulk(n, last) : n \in ScanSizes, last \in {<<1, 0>>, <<3, 4>>}}

ScanInit ==
    /\ documents = {}
    /\ chunks = <<>>
    /\ req = [p \in Procs |-> IdleReq]
    /\ next_id = 1
    /\ probe \in {[fn |-> "scan", stored |-> c, question_embedding |-> q,
                   done |-> FALSE, all_chunks |-> <<>>, scored |-> 0, top |-> <<>>] :
                     c \in ScanCorpora, q \in RankQuestions}

ScanApply ==
    /\ probe.fn = "scan" /\ ~probe.done
    /\ LET all_chunks == to_list(probe.stored, ScanLimit)
       IN  probe' = [probe EXCEPT
                       !.done = TRUE,
                       !.all_chunks = all_chunks,
                       !.scored = Len(chunk_scores(all_chunks, probe.question_embedding)),
                       !.top = top_chunks(all_chunks, probe.question_embedding)]
    /\ UNCHANGED <<documents, chunks, req, next_id>>

ScanNext == ScanApply

SpecScan == ScanInit /\ [][ScanNext]_vars

(***************************************************************************)
(* Claims.                                                                 *)
(***************************************************************************)
\* all characters of t are whitespace (t may be empty)
AllWhitespace(t) == \A i \in 1..Len(t) : t[i] \in Whitespace

\* position of a stored row in the scan result of SpecRank (rows of one
\* corpus differ in document_id or chunk_index)
ScanPos(chunk) == CHOOSE i \in 1..Len(probe.all_chunks) : probe.all_chunks[i] = chunk

SameDocAndText(a, b) ==
    a.chunk.document_id = b.chunk.document_id /\ a.chunk.text = b.chunk.text

\* C1: the candidate list handed to answer composition has at most
\* K = 10 entries, each with normalized score >= 0.40, in descending score
\* order, equal scores in scan order.
C1_RankedTopK ==
    probe.ranked =>
        LET top == probe.top
        IN  /\ Len(top) <= 10
            /\ \A k \in 1..Len(top) : DblLeq(min_score, top[k].score)
            /\ \A k \in 1..(Len(top) - 1) : DblLeq(top[k + 1].score, top[k].score)
            /\ \A j, k \in 1..Len(top) :
                   (j < k /\ top[j].score = top[k].score)
                       => ScanPos(top[j].chunk) < ScanPos(top[k].chunk)
            /\ \A k \in 1..Len(top) :
                   /\ top[k].chunk \in {probe.all_chunks[i] : i \in 1..Len(probe.all_chunks)}
                   /\ top[k].score = normalize_similarity(
                          cosine_similarity(probe.question_embedding, top[k].chunk.embedding))

\* C1 witness: more than K rows clear the threshold, exactly K are kept,
\* among them two of equal score and two of different score.
C1_Witness ==
    /\ probe.ranked
    /\ Len(probe.top) = 10
    /\ Len(probe.all_chunks) > 10
    /\ \A i \in 1..Len(probe.all_chunks) :
           DblLeq(min_score, normalize_similarity(cosine_similarity(
               probe.question_embedding, probe.all_chunks[i].embedding)))
    /\ \E j, k \in 1..10 : j < k /\ probe.top[j].score = probe.top[k].score
    /\ \E j, k \in 1..10 : DblLt(probe.top[k].score, probe.top[j].score)

\* indices of the thresholded top-K list that are the first of their
\* (document_id, text) group
FirstOfGroup(items) ==
    {i \in 1..Len(items) : \A j \in 1..(i - 1) : ~SameDocAndText(items[j], items[i])}

\* C2: no two surviving candidates share document_id and text; of every
\* group of such duplicates in the thresholded top-K exactly the first in
\* ranked order is kept, in ranked order; equal text under different
\* document ids is kept.
C2_DedupKeepsFirst ==
    probe.ranked =>
        LET top == probe.top
            firsts == FirstOfGroup(probe.filtered)
        IN  /\ \A j, k \in 1..Len(top) : j # k => ~SameDocAndText(top[j], top[k])
            /\ Len(top) = Cardinality(firsts)
            /\ \A k \in 1..Len(top) :
                   \E i \in firsts :
                       /\ Cardinality({j \in firsts : j < i}) = k - 1
                       /\ top[k] = probe.filtered[i]

\* C2 witness: a duplicate was dropped, and two candidates with the same
\* text from different documents were both kept.
C2_Witness ==
    /\ probe.ranked
    /\ Len(probe.top) < Len(probe.filtered)
    /\ \E j, k \in 1..Len(probe.top) :
           /\ probe.top[j].chunk.text = probe.top[k].chunk.text
           /\ probe.top[j].chunk.document_id # probe.top[k].chunk.document_id

\* C8 (as claimed): confidence_score is the average of the surviving
\* scores (to the four decimals the response carries; 0.0 for none), and
\* the label is the band of that reported value: >= 0.52 high, >= 0.49
\* medium, else low.
C8_LabelOfReportedScore ==
    probe.done =>
        LET top == probe.top
            r == probe.response
            avg == confidence_score(top)
        IN  IF top = <<>>
            THEN r.confidence_score = 0 /\ r.confidence = "low"
            ELSE /\ r.confidence_score = Round4(avg)
                 /\ r.confidence = (IF r.confidence_score >= 5200 THEN "high"
                                    ELSE IF r.confidence_score >= 4900 THEN "medium"
                                    ELSE "low")

\* position pos (0-based) of the text lies in a returned chunk
Covered(pos) ==
    \E k \in 1..Len(probe.spans) :
        probe.spans[k].start <= pos /\ pos < probe.spans[k].start + Len(probe.spans[k].text)

\* C7 (as claimed): for non-empty text and chunk_size > overlap >= 0 every
\* character position lies in some chunk, every chunk is non-empty after
\* trimming, and empty text yields no chunk.
C7_EveryPositionCovered ==
    (probe.done /\ probe.chunk_size > probe.overlap) =>
        /\ \A pos \in 0..(Len(probe.text) - 1) : Covered(pos)
        /\ \A k \in 1..Len(probe.out) : ~AllWhitespace(probe.out[k])
        /\ (probe.text = <<>> => probe.out = <<>>)

\* C7 (amended): every position holding a non-whitespace character lies in
\* some chunk; each chunk is the trimmed window it was cut from, so it is
\* non-empty and starts and ends with a non-whitespace character; empty
\* text yields no chunk.
C7_NonWhitespaceCovered ==
    (probe.done /\ probe.chunk_size > probe.overlap) =>
        /\ \A pos \in 0..(Len(probe.text) - 1) :
               probe.text[pos + 1] \notin Whitespace => Covered(pos)
        /\ Len(probe.out) = Len(probe.spans)
        /\ \A k \in 1..Len(probe.out) :
               /\ probe.out[k] # <<>>
               /\ probe.out[k][1] \notin Whitespace
               /\ probe.out[k][Len(probe.out[k])] \notin Whitespace
               /\ probe.out[k] = SubSeq(probe.text, probe.spans[k].start + 1,
                                        probe.spans[k].start + Len(probe.out[k]))
        /\ (probe.text = <<>> => probe.out = <<>>)

\* C7 witness: overlapping windows over a text with inner whitespace, more
\* than one chunk, the last character covered by the last window only.
C7_Witness ==
    /\ probe.done
    /\ probe.overlap > 0 /\ probe.chunk_size > probe.overlap
    /\ Len(probe.out) >= 2
    /\ \E i \in 1..Len(probe.text) : probe.text[i] \in Whitespace
    /\ probe.text[Len(probe.text)] \notin Whitespace
    /\ Cardinality({k \in 1..Len(probe.spans) :
           probe.spans[k].start + Len(probe.spans[k].text) = Len(probe.text)}) = 1

\* the corpus has held no chunk so far: chunks enter it only in
\* UploadInsertChunks, which ends its request with 200
NeverHadChunks ==
    /\ chunks = <<>>
    /\ \A u \in Procs : ~(req[u].op = "upload" /\ req[u].pc = "done" /\ req[u].status = 200)

\* C3: corpus not empty and no surviving candidate: the fixed answer with
\* no sources, "low" and 0.0 is returned with status 200, and no chat
\* completion is requested.
C3_NoEvidenceCanned ==
    \A p \in Procs :
        (req[p].op = "ask" /\ req[p].scanned /\ req[p].scan_len > 0 /\ req[p].top = <<>>)
            => /\ req[p].pc = "done"
               /\ req[p].status = 200
               /\ req[p].body.answer =
                      <<"I don't have enough information in the uploaded documents to answer this question.">>
               /\ req[p].body.sources = <<>>
               /\ req[p].body.confidence = "low"
               /\ req[p].body.confidence_score = 0
               /\ req[p].chat_calls = 0
               /\ ~req[p].chat_failed

\* C3 witness: an ask that scanned two stored chunks, kept none, and
\* returned.
C3_Witness ==
    \E p \in Procs :
        /\ req[p].op = "ask" /\ req[p].pc = "done"
        /\ req[p].scan_len = 2 /\ req[p].scored = 2 /\ req[p].top = <<>>
        /\ req[p].status = 200

\* C4 (as claimed): with a corpus that holds no chunks, an ask with a
\* non-empty question ends with 404.
C4_EmptyCorpusAlways404 ==
    \A p \in Procs :
        (req[p].op = "ask" /\ req[p].pc = "done" /\ ~AllWhitespace(req[p].question)
         /\ NeverHadChunks)
            => req[p].status = 404

\* C4 (amended): an ask with a non-empty question whose scan finds no
\* chunk ends with 404 and no body, having scored nothing and requested
\* no chat completion; over a corpus that never held a chunk the ask ends
\* with that 404 when its embedding call succeeded and with 500, before
\* the corpus is read, when it failed; never with 200.
C4_EmptyCorpus404AfterEmbedding ==
    \A p \in Procs :
        (req[p].op = "ask" /\ ~AllWhitespace(req[p].question)) =>
            /\ (req[p].scanned /\ req[p].scan_len = 0)
                   => /\ req[p].pc = "done" /\ req[p].status = 404
                      /\ req[p].body = NoBody
                      /\ req[p].scored = 0 /\ req[p].top = <<>>
                      /\ req[p].chat_calls = 0
            /\ (req[p].pc = "done" /\ NeverHadChunks)
                   => \/ req[p].status = 404 /\ ~req[p].embed_failed /\ req[p].scanned
                      \/ /\ req[p].status = 500 /\ req[p].embed_failed
                         /\ ~req[p].scanned /\ req[p].db_reads = 0

\* C4 witness: an ask scanned an empty corpus and was answered 404.
C4_Witness ==
    \E p \in Procs :
        /\ req[p].op = "ask" /\ req[p].pc = "done"
        /\ req[p].scanned /\ req[p].scan_len = 0 /\ req[p].status = 404

\* C5: a blank question and a blank upload are rejected with no embed
\* call, no chat call, no corpus read and no corpus write; nothing of the
\* blank upload is stored; the blank question is answered 400.
C5_BlankRejectedFirst ==
    /\ \A p \in Procs :
           (req[p].op = "ask" /\ AllWhitespace(req[p].question))
               => /\ req[p].pc = "done" /\ req[p].status = 400
                  /\ req[p].embed_calls = 0 /\ req[p].chat_calls = 0
                  /\ req[p].db_reads = 0 /\ req[p].db_writes = 0
    /\ \A p \in Procs :
           (req[p].op = "upload" /\ AllWhitespace(req[p].text))
               => /\ req[p].pc = "done" /\ req[p].status \in {400, 500}
                  /\ req[p].embed_calls = 0 /\ req[p].chat_calls = 0
                  /\ req[p].db_reads = 0 /\ req[p].db_writes = 0
                  /\ req[p].document_id = 0
    /\ \A d \in documents : ~AllWhitespace(d.text)

\* C5 witness: a whitespace-only question and a whitespace-only upload
\* have both been rejected.
C5_Witness ==
    \E p, u \in Procs :
        /\ req[p].op = "ask" /\ req[p].question # <<>> /\ req[p].status = 400
        /\ req[u].op = "upload" /\ req[u].text # <<>> /\ AllWhitespace(req[u].text)
        /\ req[u].pc = "done"

\* C6 (as claimed): once delete_document(id) has returned successfully,
\* the corpus holds no chunk whose document_id is id.
C6_NoChunksAfterDelete ==
    \A p \in Procs :
        (req[p].op = "delete" /\ req[p].pc = "done" /\ req[p].status = 200)
            => \A k \in 1..Len(chunks) : chunks[k].document_id # req[p].document_id

\* C9: a failed embed call of an upload ends the request with 500, leaves
\* neither the document nor a chunk of it stored, and no embed call is
\* issued twice; a failed embed or chat call of an ask ends it with 500
\* and no answer body.
C9_CollaboratorFailureFails ==
    \A p \in Procs :
        /\ (req[p].op = "upload" /\ req[p].embed_failed)
               => /\ req[p].pc = "done" /\ req[p].status = 500 /\ req[p].body = NoBody
                  /\ \A d \in documents : d.id # req[p].document_id
                  /\ \A k \in 1..Len(chunks) : chunks[k].document_id # req[p].document_id
                  /\ req[p].db_writes = 0
                  /\ req[p].embed_calls = Len(req[p].built) + 1
        /\ req[p].op = "upload" => req[p].embed_calls <= Len(req[p].chunks_text)
        /\ (req[p].op = "ask" /\ (req[p].embed_failed \/ req[p].chat_failed))
               => /\ req[p].pc = "done" /\ req[p].status = 500 /\ req[p].body = NoBody
                  /\ req[p].embed_calls = 1 /\ req[p].chat_calls <= 1

\* C9 witness: an upload whose first chunk was embedded and whose second
\* embed call failed, beside an ask that failed on its embed call.
C9_Witness ==
    \E u, p \in Procs :
        /\ req[u].op = "upload" /\ req[u].embed_failed /\ Len(req[u].built) = 1
        /\ req[p].op = "ask" /\ req[p].embed_failed

\* C10: every stored chunk has text that is non-empty after trimming, and
\* the stored chunks of one document carry the indices 0, 1, ... in scan
\* order, the chunk with index i holding the i-th chunk the chunker made
\* of that document's text.
C10_ChunkInvariant ==
    \A k \in 1..Len(chunks) :
        LET c == chunks[k]
        IN  /\ c.text # <<>>
            /\ strip(c.text) = c.text
            /\ c.chunk_index =
                   Cardinality({j \in 1..(k - 1) : chunks[j].document_id = c.document_id})
            /\ \E u \in Procs :
                   /\ req[u].op = "upload" /\ req[u].document_id = c.document_id
                   /\ c.chunk_index + 1 <= Len(req[u].chunks_text)
                   /\ c.text = req[u].chunks_text[c.chunk_index + 1]
                   /\ req[u].chunks_text = chunk_text(req[u].text, 400, 100)

\* C10 witness: both chunks of a two-chunk document are stored behind the
\* chunk of another document.
C10_Witness ==
    /\ Len(chunks) = 3
    /\ chunks[1].document_id # chunks[2].document_id
    /\ chunks[3].document_id = chunks[2].document_id
    /\ chunks[3].chunk_index = 1

\* the answer string of a parsed value, when it is an object whose "answer"
\* is a string
HasAnswer(json) == json.ok /\ json.dict /\ json.pair = AnswerPair

\* the first structured payload embedded in a text, found by bracket
\* scanning: from the first "{" to the "}" that closes it
FirstPayload(text) ==
    LET opens  == {i \in 1..Len(text) : text[i] = "{"}
        first  == CHOOSE i \in opens : \A j \in opens : i <= j
        Depth(j) == Cardinality({i \in first..j : text[i] = "{"})
                    - Cardinality({i \in first..j : text[i] = "}"})
        closes == {j \in 1..Len(text) : j > first /\ Depth(j) = 0}
        close  == CHOOSE j \in closes : \A k \in closes : j <= k
    IN  IF opens = {} THEN [found |-> FALSE, text |-> <<>>]
        ELSE IF closes = {} THEN [found |-> FALSE, text |-> <<>>]
        ELSE [found |-> TRUE, text |-> SubSeq(text, first, close)]

\* C11: the answer text of a non-canned response is chosen in three stages
\* from the chat collaborator's raw text: the answer of the object the
\* whole text parses to; otherwise the answer of the first structured
\* payload embedded in the text, if one can be located and parsed;
\* otherwise the raw text verbatim.  (A parsed value that carries no answer
\* string is read as leaving the raw text, as the code does.)
C11_ThreeStagePipeline ==
    (probe.fn = "llm" /\ probe.done) =>
        LET text == probe.llm_text
            payload == FirstPayload(text)
        IN  probe.llm_response =
                IF JsonLoads(text).ok
                THEN (IF HasAnswer(JsonLoads(text)) THEN <<"yes">> ELSE text)
                ELSE IF payload.found /\ HasAnswer(JsonLoads(payload.text))
                     THEN <<"yes">>
                     ELSE text

\* C12: ask_question scores every chunk present in the corpus at scan
\* time, for a corpus of any size: no stored chunk is left out of the
\* ranking, and the first returned candidate has the maximum normalized
\* score over all stored chunks whenever that maximum is >= min_score.
C12_ScoresEveryStoredChunk ==
    (probe.fn = "scan" /\ probe.done) =>
        LET all == chunk_scores(probe.stored, probe.question_embedding)
        IN  /\ \A k \in 1..Len(all) :
                   DblLeq(min_score, all[k].score) =>
                       /\ probe.top # <<>>
                       /\ DblLeq(all[k].score, probe.top[1].score)
            /\ probe.scored = Len(probe.stored)

\* C13: upload_document reports an empty or whitespace-only file (one that
\* decodes as UTF-8) to the caller as a 400 client error, "File is empty",
\* the class of the non-UTF-8 rejection, and never as a 500.
C13_BlankUploadIs400 ==
    \A p \in Procs :
        (/\ req[p].op = "upload" /\ req[p].pc = "done"
         /\ req[p].name = "f.txt" /\ AllWhitespace(req[p].text)) =>
            /\ req[p].status = 400
            /\ req[p].detail = "File is empty"

====
